---- MODULE Spec2Model ----
(***************************************************************************)
(* A model of modstack (src/unnamed/part_001): the builder that registers  *)
(* app-modules, the per-module guide (makeModState) and the lifecycle      *)
(* engine (makeLifecycle).                                                 *)
(*                                                                         *)
(* JavaScript runs every piece of synchronous code to completion, so one   *)
(* action of the model is one such piece: an API call made from outside up *)
(* to the point where it returns, or the continuation of one `await` up to *)
(* the next `await`.  Which of several settled promises has its            *)
(* continuation run first is left open.  A call made re-entrantly from a   *)
(* module callback (lifecycle.stop() from inside initialize) leads to the  *)
(* same state as the same call made by another caller right after the      *)
(* callback has returned its promise, which is how the model makes it.     *)
(***************************************************************************)
EXTENDS Naturals, Integers, Sequences, FiniteSets, TLC

\* ------------------------------------------------------------------ bounds

\* User modules added after the reserved "lifecycle" module.
MaxMods == 3
\* Dependencies one module may declare.
MaxDeps == 1
\* Dependencies declared in the whole stack.
MaxDepEdges == 1
\* User modules that may set options.orderedFinalization.
MaxOrdered == 1
\* Only the first MaxIndexNamed user modules may be given an integer-like name.
MaxIndexNamed == 2
\* Calls of guide.finalize() on one guide, where it is called directly, and
\* the user modules of the stacks on which it is.
MaxFinalizeCalls == 2
MaxGuideMods == 1
\* The modules added on top of lifecycle in the stacks built with a name
\* used twice, and in the stacks completed twice.
MaxDuplicateMods == 2
MaxRecompleteMods == 1
\* User modules in the stacks that hold an app module.
MaxAppMods == 1
\* Entries of the env proxy's access log, and calls of onLockedAccess.
MaxEnvAccesses == 3
MaxLockedAccessCalls == 2

MaxGuides == MaxMods + 1
GuideIds == 1..MaxGuides

\* The names user modules are given: the k-th add uses UserNames[k] or,
\* within MaxIndexNamed, the integer-like name "0"; a name is used once (the
\* type of add admits no name that is already a key).
UserNames == <<"a", "b", "c", "d", "e">>
IndexNames == {"0"}

\* ------------------------------------------------------------------ state

VARIABLES
    guides,                \* every guide ever made by add, in add order: [name, ordered, deps]
    modGuides,             \* the builder's object: <<[key, guide]>> in own-property order
    lifecyclePlaceholder,  \* makeLifecycleDep's cell: "null" or the engine set last ("lifecycle1", ...)
    engineGuides,          \* makeLifecycle's modGuides: guide ids, <<>> before complete()
    cfg,                   \* per guide: "undefined" | "set"
    inst,                  \* per guide: "undefined" | "null" | "zero" | "obj"
    finalize,              \* per guide: "undefined" | "fn"
    dependents,            \* per guide: sequence of guide ids
    finalizationPromise,   \* per guide: "none" | "pending" | "true" | "false" | "rejected"
    state,                 \* per guide: ModState
    phase,                 \* Phase
    interruptStart,        \* "null" | "pending" | "resolved"
    stopped,               \* the stopped resolvable: "pending" | "ok" | "failed"
    cfgIdx,                \* configure(): the guide whose configure is called next
    configResults,         \* configure(): <<[name, ok, failure]>> so far
    configureResult,       \* what configure() returned: "none" or [ok, failure]
    startPc,               \* start(): "idle" | "await" | "done"
    startIdx,              \* start(): position in engineGuides of the awaited initialize
    startOptions,          \* start(): its options while it runs: "none" | "plain" | "autoStopOnError"
    startResult,           \* "none" | "rejected" | [started, stopping]
    initPromise,           \* per guide, guide.initialize(): "none" | "pending" | "resolved" | "rejected"
    stopPc,                \* stop()'s async pass: "idle" | "awaitInterrupt" | "awaitBarrier" | "awaitFinal" | "done" | "rejected"
    stopIdx,               \* stop(): position in the reversed guides of the awaited barrier
    finalizationPromises,  \* stop(): <<[g, ok]>>, g = 0 for Promise.resolve(ok)
    thrown,                \* what the last API call threw: "none" or an error code
    configureCalls,        \* per guide: calls of mod.configure
    initializeCalls,       \* per guide: calls of mod.initialize
    finalizeCalls,         \* per guide: calls of the module's finalize function
    guideFinalizeCalls,    \* per guide: calls of guide.finalize()
    allowStop,             \* makeControlServer's allowStop parameter
    appOutcome,            \* what the app module's handler did last: "none" | "signal_stopping" | "signal_ignored" | "200" | "409" | "423"
    envMade,               \* makeEnvProxy has been called
    envTarget,             \* makeEnvProxy's envVars: the keys it holds
    onLockedAccessGiven,   \* options.onLockedAccess was supplied
    locked,                \* makeEnvProxy's locked
    envAccessLog,          \* makeEnvProxy's envAccessLog: <<[type, key, present, value]>>
    onLockedAccessCalls,   \* calls of options.onLockedAccess
    onLockedAccessLast,    \* its last call: [key, returned], "none" in both before any
    envResult              \* the last access: "none" | "thrown" | what it returned

builderVars == <<guides, modGuides, lifecyclePlaceholder, engineGuides>>
guideVars == <<cfg, inst, finalize, dependents, finalizationPromise, state,
               initPromise, configureCalls, initializeCalls, finalizeCalls,
               guideFinalizeCalls>>
configureVars == <<cfgIdx, configResults, configureResult>>
startVars == <<startPc, startIdx, startOptions, startResult>>
stopVars == <<phase, interruptStart, stopped, stopPc, stopIdx, finalizationPromises>>
envProxyVars == <<envMade, envTarget, onLockedAccessGiven, locked, envAccessLog,
                  onLockedAccessCalls, onLockedAccessLast, envResult>>
appVars == <<allowStop, appOutcome, envProxyVars>>
vars == <<builderVars, guideVars, configureVars, startVars, stopVars, thrown, appVars>>

\* ---------------------------------------------------------------- helpers

Range(s) == {s[i] : i \in 1..Len(s)}

Reverse(s) == [i \in 1..Len(s) |-> s[Len(s) + 1 - i]]

NameOf(g) == guides[g].name

\* The guides allocated so far.
Allocated == 1..Len(guides)

\* The reserved module is the first guide made (modstack()).
LifecycleGuide == 1

\* A JavaScript value is falsy: !inst.
Falsy(v) == v \in {"undefined", "null", "zero"}

\* inst ?? null: what guide.initialize() resolves to.
NullishCoalesce(v) == IF v \in {"undefined", "null"} THEN "null" ELSE v

\* ---------------------------------------------------- object property order

\* An integer-like key ("0", "1", ...) and its numeric value.
IsArrayIndex(key) == key \in IndexNames

IndexValue(key) == IF key = "0" THEN 0 ELSE 1

RECURSIVE InsertByIndex(_, _)
InsertByIndex(sorted, e) ==
    IF sorted = <<>> THEN <<e>>
    ELSE IF IndexValue(e.key) < IndexValue(Head(sorted).key)
         THEN <<e>> \o sorted
         ELSE <<Head(sorted)>> \o InsertByIndex(Tail(sorted), e)

RECURSIVE SortByIndex(_)
SortByIndex(s) ==
    IF s = <<>> THEN <<>>
    ELSE InsertByIndex(SortByIndex(SubSeq(s, 1, Len(s) - 1)), s[Len(s)])

IndexKeyed(e) == IsArrayIndex(e.key)

StringKeyed(e) == ~IsArrayIndex(e.key)

\* The own-property order of an object whose properties were created in the
\* order of `obj`: integer-like keys ascending, then the others as created.
OwnPropertyOrder(obj) ==
    SortByIndex(SelectSeq(obj, IndexKeyed)) \o SelectSeq(obj, StringKeyed)

HasKey(obj, key) == \E i \in 1..Len(obj) : obj[i].key = key

Lookup(obj, key) == (CHOOSE i \in 1..Len(obj) : obj[i].key = key)

\* { ...obj, [key]: g }: an existing key keeps its place and takes the new value.
ObjectSpreadSet(obj, key, g) ==
    IF HasKey(obj, key)
    THEN OwnPropertyOrder([i \in 1..Len(obj) |->
             IF obj[i].key = key THEN [key |-> key, guide |-> g] ELSE obj[i]])
    ELSE OwnPropertyOrder(Append(obj, [key |-> key, guide |-> g]))

\* Object.values(obj)
ObjectValues(obj) == [i \in 1..Len(obj) |-> obj[i].guide]

\* ----------------------------------------------------------------- builder

\* The dependency-name maps add() may be given: up to MaxDeps names, each a
\* key of the builder's object (the type of add admits no other name).
RECURSIVE SeqsUpTo(_, _)
SeqsUpTo(S, n) ==
    IF n = 0 THEN {<<>>}
    ELSE SeqsUpTo(S, n - 1) \cup
         {Append(s, x) : s \in {t \in SeqsUpTo(S, n - 1) : Len(t) = n - 1}, x \in S}

DepKeyChoices == SeqsUpTo({modGuides[i].key : i \in 1..Len(modGuides)}, MaxDeps)

AddNames ==
    LET k == Len(guides)
        names == {UserNames[k]} \cup (IF k <= MaxIndexNamed THEN IndexNames ELSE {})
    IN {n \in names : ~HasKey(modGuides, n)}

OrderedCount == Cardinality({g \in Allocated \ {LifecycleGuide} : guides[g].ordered})

RECURSIVE DepEdges(_)
DepEdges(n) == IF n = 0 THEN 0 ELSE Len(guides[n].deps) + DepEdges(n - 1)

\* makeModstack(...).add(name, mod, depKeys)
Add(name, ordered, depKeys) ==
    /\ lifecyclePlaceholder = "null"
    /\ Len(guides) < MaxGuides
    /\ ordered => OrderedCount < MaxOrdered
    /\ DepEdges(Len(guides)) + Len(depKeys) <= MaxDepEdges
    /\ LET depModGuides == [i \in 1..Len(depKeys) |->
                               modGuides[Lookup(modGuides, depKeys[i])].guide]
           g == Len(guides) + 1
       IN /\ guides' = Append(guides, [name |-> name, ordered |-> ordered,
                                       deps |-> depModGuides])
          /\ modGuides' = ObjectSpreadSet(modGuides, name, g)
    /\ UNCHANGED <<lifecyclePlaceholder, engineGuides, guideVars, configureVars,
                   startVars, stopVars, thrown, appVars>>

\* makeModstack(...).complete()
Complete ==
    /\ lifecyclePlaceholder = "null"
    /\ engineGuides' = ObjectValues(modGuides)
    /\ lifecyclePlaceholder' = "lifecycle1"
    /\ UNCHANGED <<guides, modGuides, guideVars, configureVars, startVars,
                   stopVars, thrown, appVars>>

\* The names add() may be given again: the keys the builder's object holds
\* (the type of add refuses them, the function does not look).
RegisteredNames == {modGuides[i].key : i \in 1..Len(modGuides)}

\* Nothing of the engine is waiting to go on: no configure() is running and
\* neither start() nor the stop pass is at an await.
EngineQuiescent ==
    /\ phase # "configuring"
    /\ startPc # "await"
    /\ stopPc \notin {"awaitInterrupt", "awaitBarrier", "awaitFinal"}

\* complete() called once more on the same builder: makeLifecycle builds a
\* second engine over the same guides and setLifecycle overwrites the cell.
\* The engine variables are those of the engine made last; the caller goes on
\* with that one and the earlier engine, quiescent, is not called again.
CompleteAgain ==
    /\ lifecyclePlaceholder = "lifecycle1"
    /\ EngineQuiescent
    /\ engineGuides' = ObjectValues(modGuides)
    /\ lifecyclePlaceholder' = "lifecycle2"
    /\ phase' = "loading"
    /\ interruptStart' = "null"
    /\ stopped' = "pending"
    /\ cfgIdx' = 0
    /\ configResults' = <<>>
    /\ configureResult' = "none"
    /\ startPc' = "idle"
    /\ startIdx' = 0
    /\ startOptions' = "none"
    /\ startResult' = "none"
    /\ stopPc' = "idle"
    /\ stopIdx' = 0
    /\ finalizationPromises' = <<>>
    /\ thrown' = "none"
    /\ UNCHANGED <<guides, modGuides, guideVars, appVars>>

\* --------------------------------------------------------------- configure

\* A changePhase that never looks at the current phase.
PhaseAlwaysAllowed(allowed) == phase \in allowed \cup {phase}

\* changePhase(newPhase, allowedCurrentPhases) throws phase.incorrect.
PhaseAllowed(allowed) == phase \in allowed

\* What a module's configure does when called: the module has none
\* ("absent"), or it returns { ok: true, value } with a value or with
\* undefined, or { ok: false, failure }, or it throws.
ConfigureOutcomes == {"ok", "okUndefined", "fail", "throw"}

\* The failure strings guide.configure returns for an outcome.
FailureOf(outcome) ==
    CASE outcome = "fail" -> <<"f1", "f2">>
      [] outcome = "throw" -> <<"Error: e">>
      [] OTHER -> <<>>

\* A guide.configure without its catch: a throw counts as a success.
ConfigureOkThrowUncaught(outcome) == outcome # "fail"

ConfigureOk(outcome) == outcome \in {"absent", "ok", "okUndefined"}

\* lifecycle.configure(envVars), up to the first guide's configure.  In any
\* phase but loading changePhase throws and nothing changes.
ConfigureCall(legal) ==
    /\ lifecyclePlaceholder # "null"
    /\ legal = PhaseAllowed({"loading"})
    /\ IF PhaseAllowed({"loading"})
       THEN /\ phase' = "configuring"
            /\ cfgIdx' = 1
            /\ thrown' = "none"
       ELSE /\ thrown' = "phase.incorrect"
            /\ UNCHANGED <<phase, cfgIdx>>
    /\ UNCHANGED <<appVars, builderVars, guideVars, configResults, configureResult,
                   startVars, interruptStart, stopped, stopPc, stopIdx,
                   finalizationPromises>>

ConfiguringGuide == engineGuides[cfgIdx]

\* Whether the module defines configure: the reserved module does not, the
\* modules the model adds do.
HasConfigure(g) == g # LifecycleGuide

\* guide.configure of a module without a configure function: cfg = null.
ConfigureGuideAbsent ==
    /\ phase = "configuring"
    /\ cfgIdx \in 1..Len(engineGuides)
    /\ ~HasConfigure(ConfiguringGuide)
    /\ LET g == ConfiguringGuide IN
       /\ cfg' = [cfg EXCEPT ![g] = "set"]
       /\ state' = [state EXCEPT ![g] = "configured"]
       /\ configResults' = Append(configResults,
              [name |-> NameOf(g), ok |-> TRUE, failure |-> <<>>])
    /\ cfgIdx' = cfgIdx + 1
    /\ thrown' = "none"
    /\ UNCHANGED <<appVars, builderVars, inst, finalize, dependents, finalizationPromise,
                   initPromise, configureCalls, initializeCalls, finalizeCalls,
                   guideFinalizeCalls, configureResult, startVars, stopVars>>

\* guide.configure up to the call of mod.configure(envVars).
ConfigureGuideCall ==
    /\ phase = "configuring"
    /\ cfgIdx \in 1..Len(engineGuides)
    /\ HasConfigure(ConfiguringGuide)
    /\ state[ConfiguringGuide] # "configuring"
    /\ state' = [state EXCEPT ![ConfiguringGuide] = "configuring"]
    /\ configureCalls' = [configureCalls EXCEPT ![ConfiguringGuide] = @ + 1]
    /\ thrown' = "none"
    /\ UNCHANGED <<appVars, builderVars, cfg, inst, finalize, dependents, finalizationPromise,
                   initPromise, initializeCalls, finalizeCalls, guideFinalizeCalls,
                   configureVars, startVars, stopVars>>

\* guide.configure from the return (or throw) of mod.configure.
ConfigureGuideReturn(outcome) ==
    /\ phase = "configuring"
    /\ cfgIdx \in 1..Len(engineGuides)
    /\ state[ConfiguringGuide] = "configuring"
    /\ LET g == ConfiguringGuide IN
       /\ cfg' = [cfg EXCEPT ![g] = IF outcome = "ok" THEN "set" ELSE @]
       /\ state' = [state EXCEPT ![g] =
              IF ConfigureOk(outcome) THEN "configured" ELSE "configuration_failed"]
       /\ configResults' = Append(configResults,
              [name |-> NameOf(g), ok |-> ConfigureOk(outcome),
               failure |-> FailureOf(outcome)])
    /\ cfgIdx' = cfgIdx + 1
    /\ thrown' = "none"
    /\ UNCHANGED <<appVars, builderVars, inst, finalize, dependents, finalizationPromise,
                   initPromise, configureCalls, initializeCalls, finalizeCalls,
                   guideFinalizeCalls, configureResult, startVars, stopVars>>

\* The failure strings of one guide, each prefixed with `[name] `.
Prefixed(r) == [i \in 1..Len(r.failure) |-> "[" \o r.name \o "] " \o r.failure[i]]

\* configResults.map(...).flat()
RECURSIVE FlatFailures(_)
FlatFailures(results) ==
    IF results = <<>> THEN <<>>
    ELSE (IF Head(results).ok THEN <<>> ELSE Prefixed(Head(results)))
         \o FlatFailures(Tail(results))

ConfigureResultOf(results) ==
    IF \A i \in 1..Len(results) : results[i].ok
    THEN [ok |-> TRUE, failure |-> <<>>]
    ELSE [ok |-> FALSE, failure |-> FlatFailures(results)]

\* lifecycle.configure after the last guide: the result and the phase.
ConfigureReturn ==
    /\ phase = "configuring"
    /\ cfgIdx = Len(engineGuides) + 1
    /\ configureResult' = ConfigureResultOf(configResults)
    /\ phase' = IF ConfigureResultOf(configResults).ok
                THEN "configured" ELSE "configuration_failed"
    /\ thrown' = "none"
    /\ UNCHANGED <<appVars, builderVars, guideVars, cfgIdx, configResults, startVars,
                   interruptStart, stopped, stopPc, stopIdx, finalizationPromises>>

\* ------------------------------------------------- guide: initialize

\* A getInstance that registers the dependent without looking whether the
\* guide holds an instance.
RegisterDependentUnchecked(deps, g, i) ==
    [d \in DOMAIN deps |->
        IF \E k \in i..Len(guides[g].deps) : guides[g].deps[k] = d
        THEN Append(deps[d], g) ELSE deps[d]]

\* Object.keys(depMap).map(key => depMap[key].getInstance({ finalized })):
\* the dependents lists after guide g has asked deps[i..] for their
\* instances; getInstance throws at the first dependency without one, the
\* dependencies before it have g registered by then.
RECURSIVE RegisterDependent(_, _, _)
RegisterDependent(deps, g, i) ==
    IF i > Len(guides[g].deps) \/ inst[guides[g].deps[i]] = "undefined" THEN deps
    ELSE RegisterDependent(
             [deps EXCEPT ![guides[g].deps[i]] = Append(@, g)], g, i + 1)

\* getInstance throws uninitialized_instance for one of g's dependencies.
GetInstanceThrows(g) ==
    \E i \in 1..Len(guides[g].deps) : inst[guides[g].deps[i]] = "undefined"

\* guide.initialize() up to its first await: nothing to do without a config,
\* else the dependencies' instances are fetched and mod.initialize is called.
GuideInitialize(g) ==
    IF cfg[g] = "undefined"
    THEN /\ initPromise' = [initPromise EXCEPT ![g] = "resolved"]
         /\ UNCHANGED <<state, dependents, initializeCalls>>
    ELSE /\ state' = [state EXCEPT ![g] = "initializing"]
         /\ dependents' = RegisterDependent(dependents, g, 1)
         /\ IF GetInstanceThrows(g)
            THEN /\ initPromise' = [initPromise EXCEPT ![g] = "rejected"]
                 /\ UNCHANGED initializeCalls
            ELSE /\ initPromise' = [initPromise EXCEPT ![g] = "pending"]
                 /\ initializeCalls' = [initializeCalls EXCEPT ![g] = @ + 1]

\* What mod.initialize settles with: it rejects (or throws), or resolves to
\* { instance, finalize? } with an instance that is an object or a falsy value.
InitOutcomes(g) ==
    IF g = LifecycleGuide
    THEN {[ok |-> TRUE, instance |-> "obj", finalize |-> "undefined"]}
    ELSE {[ok |-> FALSE, instance |-> "undefined", finalize |-> "undefined"]} \cup
         {[ok |-> TRUE, instance |-> i, finalize |-> f] :
              i \in {"obj", "zero", "null"}, f \in {"undefined", "fn"}}

\* guide.initialize() from the settling of mod.initialize to its return.
InitSettle(g, outcome) ==
    /\ initPromise[g] = "pending"
    /\ IF outcome.ok
       THEN /\ inst' = [inst EXCEPT ![g] = outcome.instance]
            /\ finalize' = [finalize EXCEPT ![g] = outcome.finalize]
            /\ state' = [state EXCEPT ![g] = "initialized"]
       ELSE /\ state' = [state EXCEPT ![g] = "initialization_failed"]
            /\ UNCHANGED <<inst, finalize>>
    /\ initPromise' = [initPromise EXCEPT ![g] = "resolved"]
    /\ UNCHANGED <<appVars, builderVars, cfg, dependents, finalizationPromise,
                   configureCalls, initializeCalls, finalizeCalls,
                   guideFinalizeCalls, configureVars, startVars, stopVars, thrown>>

\* --------------------------------------------------- guide: finalize

\* The part of the engine and guide state that stop() and guide.finalize()
\* change while they run synchronously.
Es == [phase |-> phase, interruptStart |-> interruptStart, stopPc |-> stopPc,
       stopIdx |-> stopIdx, fps |-> finalizationPromises, state |-> state,
       fp |-> finalizationPromise, calls |-> finalizeCalls,
       gcalls |-> guideFinalizeCalls, thrown |-> "none"]

CommitEs(es) ==
    /\ phase' = es.phase
    /\ interruptStart' = es.interruptStart
    /\ stopPc' = es.stopPc
    /\ stopIdx' = es.stopIdx
    /\ finalizationPromises' = es.fps
    /\ state' = es.state
    /\ finalizationPromise' = es.fp
    /\ finalizeCalls' = es.calls
    /\ guideFinalizeCalls' = es.gcalls
    /\ thrown' = es.thrown

\* guide.finalize() from `state = 'finalizing'` to the await of the module's
\* finalize function: without one the result is true at once; `throws` holds
\* the guides whose finalize function throws instead of returning a promise,
\* which ends the async block with a rejection.
CallFinalizeFn(es, g, throws) ==
    IF finalize[g] = "undefined"
    THEN [es EXCEPT !.state[g] = "finalized", !.fp[g] = "true"]
    ELSE [es EXCEPT !.state[g] = "finalizing",
                    !.calls[g] = @ + 1,
                    !.fp[g] = IF g \in throws THEN "rejected" ELSE "pending"]

\* dependents.map(dep => dep.finalized()) throws not_finalizing.
FinalizedThrows(es, g) ==
    \E i \in 1..Len(dependents[g]) : es.fp[dependents[g][i]] = "none"

\* A guide.finalize() that does not wait for the guide's dependents.
GuideFinalizeNoWait(es, g, throws) ==
    LET called == [es EXCEPT !.gcalls[g] = @ + 1] IN
    IF es.fp[g] # "none" THEN called
    ELSE IF Falsy(inst[g]) THEN [called EXCEPT !.fp[g] = "true"]
    ELSE CallFinalizeFn(called, g, throws)

\* A guide.finalize() that does not keep the promise of its first call.
GuideFinalizeUnmemoized(es, g, throws) ==
    LET called == [es EXCEPT !.gcalls[g] = @ + 1] IN
    IF Falsy(inst[g]) THEN [called EXCEPT !.fp[g] = "true"]
    ELSE IF Len(dependents[g]) > 0
         THEN [called EXCEPT !.state[g] = "awaiting_finalization",
                             !.fp[g] = IF FinalizedThrows(es, g)
                                       THEN "rejected" ELSE "pending"]
         ELSE CallFinalizeFn(called, g, throws)

\* A guide.finalize() that goes on without looking whether the guide holds an
\* instance.
GuideFinalizeNoInstanceCheck(es, g, throws) ==
    LET called == [es EXCEPT !.gcalls[g] = @ + 1] IN
    IF es.fp[g] # "none" THEN called
    ELSE IF Len(dependents[g]) > 0
         THEN [called EXCEPT !.state[g] = "awaiting_finalization",
                             !.fp[g] = IF FinalizedThrows(es, g)
                                       THEN "rejected" ELSE "pending"]
         ELSE CallFinalizeFn(called, g, throws)

\* A guide.finalize() that marks a guide without an instance as finalized.
GuideFinalizeMarkingFinalized(es, g, throws) ==
    LET called == [es EXCEPT !.gcalls[g] = @ + 1] IN
    IF es.fp[g] # "none" THEN called
    ELSE IF Falsy(inst[g]) THEN [called EXCEPT !.fp[g] = "true", !.state[g] = "finalized"]
    ELSE IF Len(dependents[g]) > 0
         THEN [called EXCEPT !.state[g] = "awaiting_finalization",
                             !.fp[g] = IF FinalizedThrows(es, g)
                                       THEN "rejected" ELSE "pending"]
         ELSE CallFinalizeFn(called, g, throws)

\* guide.finalize() up to its first await.
GuideFinalize(es, g, throws) ==
    LET called == [es EXCEPT !.gcalls[g] = @ + 1] IN
    IF es.fp[g] # "none" THEN called
    ELSE IF Falsy(inst[g]) THEN [called EXCEPT !.fp[g] = "true"]
    ELSE IF Len(dependents[g]) > 0
         THEN [called EXCEPT !.state[g] = "awaiting_finalization",
                             !.fp[g] = IF FinalizedThrows(es, g)
                                       THEN "rejected" ELSE "pending"]
         ELSE CallFinalizeFn(called, g, throws)

\* Promise.all over the dependents' finalized() promises.
DependentsRejected(g) ==
    \E i \in 1..Len(dependents[g]) : finalizationPromise[dependents[g][i]] = "rejected"

DependentsFulfilled(g) ==
    \A i \in 1..Len(dependents[g]) :
        finalizationPromise[dependents[g][i]] \in {"true", "false"}

\* guide.finalize() from the settling of the dependents' wait.
GuideDependentsSettled(g, throws) ==
    /\ state[g] = "awaiting_finalization"
    /\ finalizationPromise[g] = "pending"
    /\ \/ /\ DependentsRejected(g)
          /\ CommitEs([Es EXCEPT !.fp[g] = "rejected"])
       \/ /\ ~DependentsRejected(g)
          /\ DependentsFulfilled(g)
          /\ CommitEs(CallFinalizeFn(Es, g, throws))
    /\ UNCHANGED <<appVars, builderVars, cfg, inst, finalize, dependents, initPromise,
                   configureCalls, initializeCalls, configureVars, startVars,
                   stopped>>

\* guide.finalize() called on guide g by any holder of the guide, at any
\* moment after the sequence is sealed.
GuideFinalizeCall(g, throws) ==
    /\ g \in Range(engineGuides)
    /\ guideFinalizeCalls[g] < MaxFinalizeCalls
    /\ CommitEs([GuideFinalize(Es, g, throws) EXCEPT !.thrown = thrown])
    /\ UNCHANGED <<appVars, builderVars, cfg, inst, finalize, dependents, initPromise,
                   configureCalls, initializeCalls, configureVars, startVars,
                   stopped>>

\* What the promise of a module's finalize function settles with.
FinalizeOutcomes == {"true", "void", "false", "reject"}

\* await finalize().catch(() => false) ?? true
FinalizationResult(outcome) == outcome \in {"true", "void"}

\* guide.finalize() from the settling of the module's finalize function.
FinalizeSettle(g, outcome) ==
    /\ state[g] = "finalizing"
    /\ finalizationPromise[g] = "pending"
    /\ state' = [state EXCEPT ![g] =
           IF FinalizationResult(outcome) THEN "finalized" ELSE "finalization_failed"]
    /\ finalizationPromise' = [finalizationPromise EXCEPT ![g] =
           IF FinalizationResult(outcome) THEN "true" ELSE "false"]
    /\ thrown' = thrown
    /\ UNCHANGED <<appVars, builderVars, cfg, inst, finalize, dependents, initPromise,
                   configureCalls, initializeCalls, finalizeCalls,
                   guideFinalizeCalls, configureVars, startVars, phase,
                   interruptStart, stopped, stopPc, stopIdx, finalizationPromises>>

\* ------------------------------------------------------- engine: stop

\* A stop pass that walks the guides in the order of the sequence.
ModGuidesNotReversed == engineGuides

\* [...modGuides].reverse()
ReversedModGuides == Reverse(engineGuides)

\* finalizationPromises.push(modGuide.finalize())
PushFinalize(es, g, throws) ==
    LET after == GuideFinalize(es, g, throws)
    IN [after EXCEPT !.fps = Append(@, [g |-> g, ok |-> TRUE])]

\* A for loop that awaits the promises gathered so far before the finalize
\* of every guide, as if each had orderedFinalization.
StopLoopOneByOne(es, i, throws) ==
    IF i > Len(ReversedModGuides)
    THEN [es EXCEPT !.stopPc = "awaitFinal", !.stopIdx = i]
    ELSE [es EXCEPT !.stopPc = "awaitBarrier", !.stopIdx = i]

\* The for loop of stop() from reversed position i up to its next await: the
\* barrier of an orderedFinalization guide, or the final Promise.all.
RECURSIVE StopLoop(_, _, _)
StopLoop(es, i, throws) ==
    IF i > Len(ReversedModGuides)
    THEN [es EXCEPT !.stopPc = "awaitFinal", !.stopIdx = i]
    ELSE IF guides[ReversedModGuides[i]].ordered
         THEN [es EXCEPT !.stopPc = "awaitBarrier", !.stopIdx = i]
         ELSE StopLoop(PushFinalize(es, ReversedModGuides[i], throws), i + 1, throws)

\* A stop() that ignores the call only once the phase is stopped.
StopCallGuardStopped(es, throws) ==
    IF es.phase \in {"stopped"} THEN es
    ELSE IF es.phase \notin {"ready", "starting_failed", "starting"}
         THEN [es EXCEPT !.thrown = "phase.incorrect"]
         ELSE IF es.phase = "starting"
              THEN [es EXCEPT !.interruptStart = "pending",
                              !.phase = "stopping",
                              !.stopPc = "awaitInterrupt"]
              ELSE StopLoop([es EXCEPT !.phase = "stopping", !.fps = <<>>], 1, throws)

\* stop(), up to the first await of its async block.
\* A stop() that begins its pass at once, also when start() is under way.
StopCallNoDefer(es, throws) ==
    IF es.phase \in {"stopping", "stopped"} THEN es
    ELSE IF es.phase \notin {"ready", "starting_failed", "starting"}
         THEN [es EXCEPT !.thrown = "phase.incorrect"]
         ELSE StopLoop([es EXCEPT !.phase = "stopping", !.fps = <<>>], 1, throws)

\* A stop() whose changePhase does not allow the phase starting.
StopCallNoInterrupt(es, throws) ==
    IF es.phase \in {"stopping", "stopped"} THEN es
    ELSE IF es.phase \notin {"ready", "starting_failed"}
         THEN [es EXCEPT !.thrown = "phase.incorrect"]
         ELSE StopLoop([es EXCEPT !.phase = "stopping", !.fps = <<>>], 1, throws)

\* A stop() whose changePhase does not allow the phase starting_failed.
StopCallNotAfterFailure(es, throws) ==
    IF es.phase \in {"stopping", "stopped"} THEN es
    ELSE IF es.phase \notin {"ready", "starting"}
         THEN [es EXCEPT !.thrown = "phase.incorrect"]
         ELSE IF es.phase = "starting"
              THEN [es EXCEPT !.interruptStart = "pending",
                              !.phase = "stopping",
                              !.stopPc = "awaitInterrupt"]
              ELSE StopLoop([es EXCEPT !.phase = "stopping", !.fps = <<>>], 1, throws)

StopCall(es, throws) ==
    IF es.phase \in {"stopping", "stopped"} THEN es
    ELSE IF es.phase \notin {"ready", "starting_failed", "starting"}
         THEN [es EXCEPT !.thrown = "phase.incorrect"]
         ELSE IF es.phase = "starting"
              THEN [es EXCEPT !.interruptStart = "pending",
                              !.phase = "stopping",
                              !.stopPc = "awaitInterrupt"]
              ELSE StopLoop([es EXCEPT !.phase = "stopping", !.fps = <<>>], 1, throws)

\* The guides whose finalize function may throw when called: any.
ThrowChoices == SUBSET {g \in Allocated : finalize[g] = "fn"}

\* lifecycle.stop() called from outside or from a module callback.
Stop(throws) ==
    /\ lifecyclePlaceholder # "null"
    /\ CommitEs(StopCall(Es, throws))
    /\ UNCHANGED <<appVars, builderVars, cfg, inst, finalize, dependents, initPromise,
                   configureCalls, initializeCalls, configureVars, startVars,
                   stopped>>

\* stop()'s async block from `await interruptStart.promise`.
StopResumeInterrupt(throws) ==
    /\ stopPc = "awaitInterrupt"
    /\ interruptStart = "resolved"
    /\ CommitEs([StopLoop([Es EXCEPT !.fps = <<>>], 1, throws) EXCEPT !.thrown = thrown])
    /\ UNCHANGED <<appVars, builderVars, cfg, inst, finalize, dependents, initPromise,
                   configureCalls, initializeCalls, configureVars, startVars,
                   stopped>>

\* Promise.all(finalizationPromises): rejected as soon as one entry is,
\* fulfilled once every entry is.
EntryRejected(e) == IF e.g = 0 THEN FALSE ELSE finalizationPromise[e.g] = "rejected"

EntryFulfilled(e) == IF e.g = 0 THEN TRUE ELSE finalizationPromise[e.g] \in {"true", "false"}

AllRejected == \E i \in 1..Len(finalizationPromises) : EntryRejected(finalizationPromises[i])

\* A wait that is over as soon as the promise pushed last is fulfilled.
LastFulfilled ==
    IF finalizationPromises = <<>> THEN TRUE
    ELSE EntryFulfilled(finalizationPromises[Len(finalizationPromises)])

AllFulfilled == \A i \in 1..Len(finalizationPromises) : EntryFulfilled(finalizationPromises[i])

\* An aggregation that takes the collapsed barrier result for a success.
EntryOkBarrierDropped(e) == IF e.g = 0 THEN TRUE ELSE finalizationPromise[e.g] = "true"

EntryOk(e) == IF e.g = 0 THEN e.ok ELSE finalizationPromise[e.g] = "true"

\* (await Promise.all(finalizationPromises)).every((ok) => ok)
FinalizationOk == \A i \in 1..Len(finalizationPromises) : EntryOk(finalizationPromises[i])

\* stop()'s async block from the barrier of an orderedFinalization guide: the
\* promises so far collapse into one and the guide's finalize is issued.
StopResumeBarrier(throws) ==
    /\ stopPc = "awaitBarrier"
    /\ ~AllRejected
    /\ AllFulfilled
    /\ LET collapsed == [Es EXCEPT !.fps = <<[g |-> 0, ok |-> FinalizationOk]>>,
                                   !.thrown = thrown]
           g == ReversedModGuides[stopIdx]
       IN CommitEs(StopLoop(PushFinalize(collapsed, g, throws), stopIdx + 1, throws))
    /\ UNCHANGED <<appVars, builderVars, cfg, inst, finalize, dependents, initPromise,
                   configureCalls, initializeCalls, configureVars, startVars,
                   stopped>>

\* A stop() pass that gives its verdict without awaiting the finalization
\* promises.
StopResumeFinalEarly ==
    /\ stopPc = "awaitFinal"
    /\ ~AllRejected
    /\ phase' = IF FinalizationOk THEN "stopped" ELSE "stopping_failed"
    /\ stopped' = IF FinalizationOk THEN "ok" ELSE "failed"
    /\ stopPc' = "done"
    /\ UNCHANGED <<appVars, builderVars, guideVars, configureVars, startVars,
                   interruptStart, stopIdx, finalizationPromises, thrown>>

\* stop()'s async block from the final Promise.all: the verdict.
StopResumeFinal ==
    /\ stopPc = "awaitFinal"
    /\ ~AllRejected
    /\ AllFulfilled
    /\ phase' = IF FinalizationOk THEN "stopped" ELSE "stopping_failed"
    /\ stopped' = IF FinalizationOk THEN "ok" ELSE "failed"
    /\ stopPc' = "done"
    /\ UNCHANGED <<appVars, builderVars, guideVars, configureVars, startVars,
                   interruptStart, stopIdx, finalizationPromises, thrown>>

\* A rejected guide.finalize() rejects the Promise.all that stop()'s async
\* block awaits: the block ends there, nothing catches the rejection.
StopResumeRejected ==
    /\ stopPc \in {"awaitBarrier", "awaitFinal"}
    /\ AllRejected
    /\ stopPc' = "rejected"
    /\ UNCHANGED <<appVars, builderVars, guideVars, configureVars, startVars, phase,
                   interruptStart, stopped, stopIdx, finalizationPromises, thrown>>

\* ------------------------------------------------------ engine: start

\* lifecycle.start(options) up to its first await.  In any phase but
\* configured changePhase throws, which rejects the promise start() returns.
StartOptions == {"plain", "autoStopOnError"}

Start(options, legal) ==
    /\ lifecyclePlaceholder # "null"
    /\ legal = PhaseAllowed({"configured"})
    /\ IF PhaseAllowed({"configured"})
       THEN /\ phase' = "starting"
            /\ startPc' = "await"
            /\ startIdx' = 1
            /\ startOptions' = options
            /\ GuideInitialize(engineGuides[1])
            /\ thrown' = "none"
            /\ UNCHANGED startResult
       ELSE /\ thrown' = "phase.incorrect"
            /\ UNCHANGED <<phase, startVars, state, dependents, initPromise,
                           initializeCalls>>
    /\ UNCHANGED <<appVars, builderVars, cfg, inst, finalize, finalizationPromise,
                   configureCalls, finalizeCalls, guideFinalizeCalls, configureVars,
                   interruptStart, stopped, stopPc, stopIdx, finalizationPromises>>

AwaitedGuide == engineGuides[startIdx]

\* start(): the awaited guide.initialize() rejected (getInstance threw), and
\* so does start().
StartResumeRejected ==
    /\ startPc = "await"
    /\ initPromise[AwaitedGuide] = "rejected"
    /\ startPc' = "done"
    /\ startResult' = "rejected"
    /\ startOptions' = "none"
    /\ UNCHANGED <<appVars, builderVars, guideVars, configureVars, startIdx,
                   stopVars, thrown>>

\* start(): a stop() came in meanwhile.
StartResumeInterrupted ==
    /\ startPc = "await"
    /\ initPromise[AwaitedGuide] = "resolved"
    /\ interruptStart # "null"
    /\ interruptStart' = "resolved"
    /\ startPc' = "done"
    /\ startResult' = [started |-> FALSE, stopping |-> "true"]
    /\ startOptions' = "none"
    /\ UNCHANGED <<appVars, builderVars, guideVars, configureVars, startIdx,
                   phase, stopped, stopPc, stopIdx, finalizationPromises, thrown>>

\* A start() that reports autoStopOnError in what it returns and never calls
\* stop().
StartResumeFailedNoAutoStop(throws) ==
    /\ startPc = "await"
    /\ initPromise[AwaitedGuide] = "resolved"
    /\ interruptStart = "null"
    /\ Falsy(NullishCoalesce(inst[AwaitedGuide]))
    /\ CommitEs([Es EXCEPT !.phase = "starting_failed", !.thrown = thrown])
    /\ startPc' = "done"
    /\ startResult' = [started |-> FALSE,
                       stopping |-> IF startOptions = "autoStopOnError"
                                    THEN "true" ELSE "false"]
    /\ startOptions' = "none"
    /\ UNCHANGED <<appVars, builderVars, cfg, inst, finalize, dependents, initPromise,
                   configureCalls, initializeCalls, configureVars, startIdx,
                   stopped>>

\* start(): the guide produced no instance.
StartResumeFailed(throws) ==
    /\ startPc = "await"
    /\ initPromise[AwaitedGuide] = "resolved"
    /\ interruptStart = "null"
    /\ Falsy(NullishCoalesce(inst[AwaitedGuide]))
    /\ LET failed == [Es EXCEPT !.phase = "starting_failed", !.thrown = thrown]
       IN CommitEs(IF startOptions = "autoStopOnError"
                   THEN [StopCall(failed, throws) EXCEPT !.thrown = thrown]
                   ELSE failed)
    /\ startPc' = "done"
    /\ startResult' = [started |-> FALSE,
                       stopping |-> IF startOptions = "autoStopOnError"
                                    THEN "true" ELSE "false"]
    /\ startOptions' = "none"
    /\ UNCHANGED <<appVars, builderVars, cfg, inst, finalize, dependents, initPromise,
                   configureCalls, initializeCalls, configureVars, startIdx,
                   stopped>>

\* A start() loop that goes on to the next guide without looking at
\* interruptStart.
StartResumeNextIgnoringStop ==
    /\ startPc = "await"
    /\ initPromise[AwaitedGuide] = "resolved"
    /\ ~Falsy(NullishCoalesce(inst[AwaitedGuide]))
    /\ startIdx < Len(engineGuides)
    /\ startIdx' = startIdx + 1
    /\ GuideInitialize(engineGuides[startIdx + 1])
    /\ UNCHANGED <<appVars, builderVars, cfg, inst, finalize, finalizationPromise,
                   configureCalls, finalizeCalls, guideFinalizeCalls, configureVars,
                   startPc, startOptions, startResult, stopVars, thrown>>

\* start(): on to the next guide's initialize.
StartResumeNext ==
    /\ startPc = "await"
    /\ initPromise[AwaitedGuide] = "resolved"
    /\ interruptStart = "null"
    /\ ~Falsy(NullishCoalesce(inst[AwaitedGuide]))
    /\ startIdx < Len(engineGuides)
    /\ startIdx' = startIdx + 1
    /\ GuideInitialize(engineGuides[startIdx + 1])
    /\ UNCHANGED <<appVars, builderVars, cfg, inst, finalize, finalizationPromise,
                   configureCalls, finalizeCalls, guideFinalizeCalls, configureVars,
                   startPc, startOptions, startResult, stopVars, thrown>>

\* A start() that declares the engine ready without looking at
\* interruptStart.
StartResumeReadyIgnoringStop ==
    /\ startPc = "await"
    /\ initPromise[AwaitedGuide] = "resolved"
    /\ ~Falsy(NullishCoalesce(inst[AwaitedGuide]))
    /\ startIdx = Len(engineGuides)
    /\ phase' = "ready"
    /\ startPc' = "done"
    /\ startResult' = [started |-> TRUE, stopping |-> "absent"]
    /\ startOptions' = "none"
    /\ UNCHANGED <<appVars, builderVars, guideVars, configureVars, startIdx,
                   interruptStart, stopped, stopPc, stopIdx, finalizationPromises,
                   thrown>>

\* A start() that declares the engine ready without looking at what the last
\* guide's initialize produced.
StartResumeReadyUnchecked ==
    /\ startPc = "await"
    /\ initPromise[AwaitedGuide] = "resolved"
    /\ interruptStart = "null"
    /\ startIdx = Len(engineGuides)
    /\ phase' = "ready"
    /\ startPc' = "done"
    /\ startResult' = [started |-> TRUE, stopping |-> "absent"]
    /\ startOptions' = "none"
    /\ UNCHANGED <<appVars, builderVars, guideVars, configureVars, startIdx,
                   interruptStart, stopped, stopPc, stopIdx, finalizationPromises,
                   thrown>>

\* start(): every guide produced an instance.
StartResumeReady ==
    /\ startPc = "await"
    /\ initPromise[AwaitedGuide] = "resolved"
    /\ interruptStart = "null"
    /\ ~Falsy(NullishCoalesce(inst[AwaitedGuide]))
    /\ startIdx = Len(engineGuides)
    /\ phase' = "ready"
    /\ startPc' = "done"
    /\ startResult' = [started |-> TRUE, stopping |-> "absent"]
    /\ startOptions' = "none"
    /\ UNCHANGED <<appVars, builderVars, guideVars, configureVars, startIdx,
                   interruptStart, stopped, stopPc, stopIdx, finalizationPromises,
                   thrown>>

\* ------------------------------------------------------------------- Init

\* The state after modstack({ logger }): the builder holds the reserved
\* "lifecycle" module, flagged orderedFinalization, and nothing else.
Init ==
    /\ guides = <<[name |-> "lifecycle", ordered |-> TRUE, deps |-> <<>>]>>
    /\ modGuides = <<[key |-> "lifecycle", guide |-> 1]>>
    /\ lifecyclePlaceholder = "null"
    /\ engineGuides = <<>>
    /\ cfg = [g \in GuideIds |-> "undefined"]
    /\ inst = [g \in GuideIds |-> "undefined"]
    /\ finalize = [g \in GuideIds |-> "undefined"]
    /\ dependents = [g \in GuideIds |-> <<>>]
    /\ finalizationPromise = [g \in GuideIds |-> "none"]
    /\ state = [g \in GuideIds |-> "added"]
    /\ phase = "loading"
    /\ interruptStart = "null"
    /\ stopped = "pending"
    /\ cfgIdx = 0
    /\ configResults = <<>>
    /\ configureResult = "none"
    /\ startPc = "idle"
    /\ startIdx = 0
    /\ startOptions = "none"
    /\ startResult = "none"
    /\ initPromise = [g \in GuideIds |-> "none"]
    /\ stopPc = "idle"
    /\ stopIdx = 0
    /\ finalizationPromises = <<>>
    /\ thrown = "none"
    /\ configureCalls = [g \in GuideIds |-> 0]
    /\ initializeCalls = [g \in GuideIds |-> 0]
    /\ finalizeCalls = [g \in GuideIds |-> 0]
    /\ guideFinalizeCalls = [g \in GuideIds |-> 0]
    /\ allowStop = FALSE
    /\ appOutcome = "none"
    /\ envMade = FALSE
    /\ envTarget = {}
    /\ onLockedAccessGiven = FALSE
    /\ locked = FALSE
    /\ envAccessLog = <<>>
    /\ onLockedAccessCalls = 0
    /\ onLockedAccessLast = [key |-> "none", returned |-> "none"]
    /\ envResult = "none"

\* Every step but add: complete(), the engine's calls and the continuations
\* of its awaits.
Run ==
    \/ Complete
    \/ ConfigureCall(TRUE)
    \/ ConfigureGuideAbsent
    \/ ConfigureGuideCall
    \/ \E outcome \in ConfigureOutcomes : ConfigureGuideReturn(outcome)
    \/ ConfigureReturn
    \/ \E options \in StartOptions : Start(options, TRUE)
    \/ \E g \in Allocated : \E outcome \in InitOutcomes(g) : InitSettle(g, outcome)
    \/ StartResumeRejected
    \/ StartResumeInterrupted
    \/ \E throws \in ThrowChoices : StartResumeFailed(throws)
    \/ StartResumeNext
    \/ StartResumeReady
    \/ \E throws \in ThrowChoices : Stop(throws)
    \/ \E throws \in ThrowChoices : StopResumeInterrupt(throws)
    \/ \E throws \in ThrowChoices : StopResumeBarrier(throws)
    \/ StopResumeFinal
    \/ StopResumeRejected
    \/ \E g \in Allocated : \E throws \in ThrowChoices : GuideDependentsSettled(g, throws)
    \/ \E g \in Allocated : \E outcome \in FinalizeOutcomes : FinalizeSettle(g, outcome)

Next ==
    \/ \E name \in AddNames, ordered \in BOOLEAN, depKeys \in DepKeyChoices :
          Add(name, ordered, depKeys)
    \/ Run

Spec == Init /\ [][Next]_vars

\* The guides driven by the engine and, besides, by direct calls of
\* guide.finalize().
NextGuide ==
    \/ \E name \in AddNames, ordered \in BOOLEAN, depKeys \in DepKeyChoices :
          /\ Len(guides) <= MaxGuideMods
          /\ Add(name, ordered, depKeys)
    \/ Run
    \/ \E g \in Allocated : \E throws \in ThrowChoices : GuideFinalizeCall(g, throws)

SpecGuide == Init /\ [][NextGuide]_vars

\* The engine called in every phase: besides the calls of Next, configure()
\* outside loading and start() outside configured (stop() in a phase it does
\* not allow is a step of Next already).
NextMisuse ==
    \/ Next
    \/ ConfigureCall(FALSE)
    \/ \E options \in StartOptions : Start(options, FALSE)

SpecMisuse == Init /\ [][NextMisuse]_vars

\* ----------------------------------------------------------------- claims

\* The guides of the sealed sequence the engine drives.
SealedGuides == Range(engineGuides)

\* The finalize-terminal states of a guide.
FinalizeTerminal(g) == state[g] \in {"finalized", "finalization_failed"}

\* guide.finalize() has been issued on g / has settled with an outcome.
FinalizeIssued(g) == finalizationPromise[g] # "none"

FinalizeSettled(g) == finalizationPromise[g] \in {"true", "false"}

\* The guides that obtained g's instance through getInstance.
Dependents(g) == Range(dependents[g])

\* C1, as stated: a module is never finalized or finalization_failed before
\* every registered dependent is, whether or not the dependent's initialize
\* succeeded.
C1_DependentsTerminalFirst ==
    \A g \in Allocated :
        FinalizeTerminal(g) => \A d \in Dependents(g) : FinalizeTerminal(d)

\* C1, amended: a module is never finalized or finalization_failed before the
\* finalize of every registered dependent has settled; a dependent that holds
\* an instance is then finalized or finalization_failed itself, a dependent
\* without one (its initialize failed) keeps the state it had.
C1_DependentsSettledFirst ==
    \A g \in Allocated :
        FinalizeTerminal(g) =>
            \A d \in Dependents(g) :
                /\ FinalizeSettled(d)
                /\ ~Falsy(inst[d]) => FinalizeTerminal(d)

\* C1 witness: a dependency reached a terminal state after a dependent with a
\* finalize function failed its finalization.
C1_Witness ==
    \E g \in Allocated : \E d \in Dependents(g) :
        /\ FinalizeTerminal(g)
        /\ finalizeCalls[d] = 1
        /\ state[d] = "finalization_failed"

\* The place of guide g in the sealed sequence.
Position(g) == CHOOSE i \in 1..Len(engineGuides) : engineGuides[i] = g

\* Guides are numbered in the order of the add calls that made them.
AddedBefore(m, g) == m < g

\* The guide's finalize function has been invoked (or found absent): the guide
\* has entered finalizing.
FinalizeStarted(g) ==
    state[g] \in {"finalizing", "finalized", "finalization_failed"}

\* C2: for an initialized module g with orderedFinalization and a module m
\* registered (and placed in the sequence) before g, m is not finalized or
\* finalization_failed before g has entered finalizing, whether or not g has
\* dependents.
C2_OrderedHoldsBackEarlier ==
    \A g \in SealedGuides : \A m \in SealedGuides :
        ( /\ guides[g].ordered
          /\ ~Falsy(inst[g])
          /\ AddedBefore(m, g)
          /\ Position(m) < Position(g)
          /\ FinalizeTerminal(m) ) => FinalizeStarted(g)

\* C3: the finalize of an initialized module with orderedFinalization is not issued until
\* the finalize of every module registered after it has settled.
C3_OrderedIssuedAfterLater ==
    \A g \in SealedGuides : \A m \in SealedGuides :
        ( /\ guides[g].ordered
          /\ ~Falsy(inst[g])
          /\ AddedBefore(g, m)
          /\ FinalizeIssued(g) ) => FinalizeSettled(m)

\* C4: however often guide.finalize() is called on a guide, the module's
\* finalize function is invoked at most once, and every call gets the promise
\* of the first one: once made it is never replaced, once settled its outcome
\* never changes.
C4_FinalizeOnce ==
    [][\A g \in GuideIds :
          /\ finalizeCalls'[g] <= 1
          /\ finalizationPromise[g] # "none" => finalizationPromise'[g] # "none"
          /\ finalizationPromise[g] \in {"true", "false", "rejected"} =>
                 finalizationPromise'[g] = finalizationPromise[g]]_vars

\* C4 witness: guide.finalize() was called twice or more on a guide whose
\* finalize function ran once and settled.
C4_Witness ==
    \E g \in SealedGuides :
        /\ guideFinalizeCalls[g] >= 2
        /\ finalizeCalls[g] = 1
        /\ FinalizeTerminal(g)

\* C5: stop() called while the phase is stopping or stopped returns without
\* throwing and changes nothing (no phase change, no second pass), and with
\* stop() called by anyone at any moment no finalize function runs twice.
C5_StopIgnored ==
    /\ phase \in {"stopping", "stopped"} =>
           \A throws \in ThrowChoices : StopCall(Es, throws) = Es
    /\ \A g \in GuideIds : finalizeCalls[g] <= 1

\* C5 witness: a stop pass is under way with a finalize function running, and
\* a further stop() is ignored.
C5_Witness ==
    /\ phase = "stopping"
    /\ \E g \in SealedGuides :
           /\ finalizeCalls[g] = 1
           /\ finalizationPromise[g] = "pending"
    /\ StopCall(Es, {}) = Es

\* C6: stop() called while start() awaits a module's initialize makes the
\* phase stopping in that very step; from then on the loop of start() begins
\* no further initialize, start() returns { started: false, stopping: true },
\* and the phase is never ready or starting_failed, whatever the initialize
\* in flight settles with.
C6_StopInterruptsStart ==
    [][/\ (interruptStart = "null" /\ interruptStart' # "null") =>
              (phase = "starting" /\ phase' = "stopping")
       /\ interruptStart # "null" =>
              /\ initializeCalls' = initializeCalls
              /\ startIdx' = startIdx
              /\ phase' \in {"stopping", "stopped", "stopping_failed"}
       /\ ( /\ interruptStart # "null"
            /\ startPc = "await"
            /\ initPromise[AwaitedGuide] # "rejected"
            /\ startPc' = "done" ) =>
              startResult' = [started |-> FALSE, stopping |-> "true"]]_vars

\* C6 witness: start() was interrupted while an initialize was in flight that
\* then failed; a later module was never begun and the pass has finished.
C6_Witness ==
    /\ interruptStart = "resolved"
    /\ startResult = [started |-> FALSE, stopping |-> "true"]
    /\ startIdx < Len(engineGuides)
    /\ state[AwaitedGuide] = "initialization_failed"
    /\ state[engineGuides[startIdx + 1]] = "configured"
    /\ phase = "stopped"

\* A module callback is running: an initialize or a finalize function that
\* has been called and has not settled.
CallbackInFlight ==
    \E g \in Allocated :
        \/ initPromise[g] = "pending"
        \/ state[g] = "finalizing" /\ finalizationPromise[g] = "pending"

\* The continuation of some await of start(), stop() or guide.finalize().
Continuation ==
    \/ StartResumeRejected
    \/ StartResumeInterrupted
    \/ \E throws \in ThrowChoices : StartResumeFailed(throws)
    \/ StartResumeNext
    \/ StartResumeReady
    \/ \E throws \in ThrowChoices : StopResumeInterrupt(throws)
    \/ \E throws \in ThrowChoices : StopResumeBarrier(throws)
    \/ StopResumeFinal
    \/ \E g \in Allocated : \E throws \in ThrowChoices : GuideDependentsSettled(g, throws)

\* The sealed sequence holds the guides in the order they were added (no
\* integer-like name has moved one forward).
AddOrderKept == \A i \in 1..Len(engineGuides) : engineGuides[i] = i

\* C7: once stop() is accepted the pass does not get stuck: while the phase
\* is stopping, either a module callback is still to settle or some await of
\* the engine can continue towards stopped or stopping_failed.  Stated for
\* the stacks whose sequence is in add order.
C7_StopNeverStuck ==
    (AddOrderKept /\ phase = "stopping" /\ ~CallbackInFlight) =>
        ENABLED Continuation

\* C8: the stop pass gets to every module that was initialized, also past a
\* module whose finalize fails: when the pass has ended, with stopped()
\* resolved or not, every module that holds an instance is finalized or
\* finalization_failed.  Stated for the stacks whose sequence is in add order.
C8_InitializedAllFinalized ==
    (AddOrderKept /\ stopPc \in {"done", "rejected"}) =>
        \A g \in SealedGuides : ~Falsy(inst[g]) => FinalizeTerminal(g)

\* C9: stopped resolves with ok: true, and the phase is stopped, exactly when
\* the finalize of every guide resolved true; otherwise it resolves with
\* ok: false and the phase is stopping_failed, also when the failed result had
\* been collapsed into a barrier.
C9_VerdictIsConjunction ==
    stopped # "pending" =>
        /\ \A g \in SealedGuides : FinalizeSettled(g)
        /\ stopped = "ok" <=> \A g \in SealedGuides : finalizationPromise[g] = "true"
        /\ phase = (IF stopped = "ok" THEN "stopped" ELSE "stopping_failed")

\* C9 witness: the pass ended in stopping_failed on a failure that a barrier
\* had collapsed, every guide issued after the barrier having succeeded.
C9_Witness ==
    /\ stopped = "failed"
    /\ phase = "stopping_failed"
    /\ Len(finalizationPromises) >= 2
    /\ finalizationPromises[1] = [g |-> 0, ok |-> FALSE]
    /\ \A i \in 2..Len(finalizationPromises) :
           finalizationPromise[finalizationPromises[i].g] = "true"

\* C10: the promise of guide.finalize() never rejects, whatever the module's
\* finalize function does, and once it has resolved a guide that holds an
\* instance is finalized on true and finalization_failed on false.  Stated
\* for the stacks whose sequence is in add order.
C10_FinalizeNeverRejects ==
    \A g \in Allocated :
        /\ AddOrderKept => finalizationPromise[g] # "rejected"
        /\ (FinalizeSettled(g) /\ ~Falsy(inst[g])) =>
               state[g] = (IF finalizationPromise[g] = "true"
                           THEN "finalized" ELSE "finalization_failed")

\* The builder used against its type: besides the steps of Next, add() with
\* a name that is registered already.  Stacks of up to MaxDuplicateMods
\* modules added on top of lifecycle.
NextDuplicate ==
    \/ \E name \in AddNames \cup RegisteredNames, ordered \in BOOLEAN,
          depKeys \in DepKeyChoices :
          /\ Len(guides) <= MaxDuplicateMods
          /\ Add(name, ordered, depKeys)
    \/ Run

SpecDuplicate == Init /\ [][NextDuplicate]_vars

\* The builder completed twice: besides the steps of Next, a second
\* complete().  Stacks of up to MaxRecompleteMods modules added on top of
\* lifecycle.
NextRecomplete ==
    \/ \E name \in AddNames, ordered \in BOOLEAN, depKeys \in DepKeyChoices :
          /\ Len(guides) <= MaxRecompleteMods
          /\ Add(name, ordered, depKeys)
    \/ Run
    \/ CompleteAgain

SpecRecomplete == Init /\ [][NextRecomplete]_vars

\* ------------------------------------------------------------------ C11

\* The phase changes the engine's documentation allows.
PhaseChanges ==
    { <<"loading", "configuring">>,
      <<"configuring", "configured">>,
      <<"configuring", "configuration_failed">>,
      <<"configured", "starting">>,
      <<"starting", "ready">>,
      <<"starting", "starting_failed">>,
      <<"starting", "stopping">>,
      <<"ready", "stopping">>,
      <<"starting_failed", "stopping">>,
      <<"stopping", "stopped">>,
      <<"stopping", "stopping_failed">> }

\* C11: whatever configure(), start() and stop() calls are made, in whatever
\* phase, and however the modules' callbacks end, every change of the engine's
\* phase is one of the eleven listed changes.  (A start() that fails with
\* autoStopOnError passes through starting_failed inside one synchronous
\* step; the step as a whole is starting -> stopping, which is listed too.)
C11_PhaseChangesListed ==
    [][phase' # phase => <<phase, phase'>> \in PhaseChanges]_vars

\* C11 witness: the engine went all the way to a failed stop, and the last
\* call was refused for the phase it came in.
C11_Witness ==
    /\ phase = "stopping_failed"
    /\ thrown = "phase.incorrect"
    /\ startPc = "done"

\* ------------------------------------------------------------------ C12

\* The phases stop() accepts: it goes on in three and is ignored in two.
StopAccepted == phase \in {"starting", "ready", "starting_failed", "stopping", "stopped"}

\* A call of configure(), start() or stop() in a phase the call is not made
\* for.  (start() is async: its error is the rejection of the promise it
\* returns.)
WrongPhaseCall ==
    \/ /\ phase # "loading"
       /\ \E legal \in BOOLEAN : ConfigureCall(legal)
    \/ /\ phase # "configured"
       /\ \E options \in StartOptions, legal \in BOOLEAN : Start(options, legal)
    \/ /\ ~StopAccepted
       /\ \E throws \in ThrowChoices : Stop(throws)

\* C12: configure() outside loading, start() outside configured and stop()
\* outside starting, ready, starting_failed, stopping and stopped fail with
\* phase.incorrect, leave the phase, every module's state and everything else
\* the engine holds as they were, and call no module callback.
C12_WrongPhaseRefused ==
    [][WrongPhaseCall =>
          /\ thrown' = "phase.incorrect"
          /\ UNCHANGED <<appVars, builderVars, guideVars, configureVars, startVars,
                         stopVars>>]_vars

\* C12 witness: a call was refused while the engine was ready, with modules
\* initialized (stop() is accepted there, so the call was configure() or
\* start()).
C12_Witness ==
    /\ phase = "ready"
    /\ thrown = "phase.incorrect"
    /\ \E g \in SealedGuides : initializeCalls[g] = 1

\* ------------------------------------------------------------------ C13

\* mod.initialize of g has been called and has not settled.
InitializeInFlight(g) == initPromise[g] = "pending"

\* mod.initialize of g has been called.
InitializeBegun(g) == initializeCalls[g] >= 1

\* mod.initialize of g has been called and has settled.
InitializeSettled(g) == InitializeBegun(g) /\ initPromise[g] = "resolved"

\* C13: start() calls the modules' initialize in the order in which the
\* modules were registered and one at a time: at most one initialize is in
\* flight, and when the initialize of a module has begun, the initialize of
\* every module registered before it has been called and has settled.
C13_InitializeInOrder ==
    /\ Cardinality({g \in SealedGuides : InitializeInFlight(g)}) <= 1
    /\ \A m, g \in SealedGuides :
          (AddedBefore(m, g) /\ InitializeBegun(g)) => InitializeSettled(m)

\* ------------------------------------------------------------------ C14

\* start() has returned by rejecting: the one thing that can throw inside it
\* is the awaited guide.initialize().
StartRejected == startPc = "done" /\ initPromise[AwaitedGuide] = "rejected"

\* start() has returned by resolving, to the record startResult.
StartResolved == startPc = "done" /\ initPromise[AwaitedGuide] # "rejected"

\* mod.initialize of g threw or rejected.
InitializeFailed(g) == state[g] = "initialization_failed"

\* C14: when a module's initialize throws or rejects, no module registered
\* after it has its initialize called, each of them stays in state
\* configured, the failing module is in state initialization_failed, start()
\* resolves with started false and does not reject, and, no stop() having
\* come in, the phase is starting_failed until stop() is called (by the
\* caller or by autoStopOnError).
C14_InitializeFailureStopsStart ==
    \A g \in SealedGuides :
        InitializeFailed(g) =>
            /\ \A m \in SealedGuides :
                  AddedBefore(g, m) => (~InitializeBegun(m) /\ state[m] = "configured")
            /\ startPc = "done" =>
                  /\ StartResolved
                  /\ ~startResult.started
                  /\ phase # "starting"
                  /\ stopPc = "idle" =>
                        /\ phase = "starting_failed"
                        /\ startResult.stopping = "false"

\* ------------------------------------------------------------------ C15

\* start() has returned because a guide produced no instance, no stop()
\* having come in while it ran.
StartFailed == StartResolved /\ interruptStart = "null" /\ ~startResult.started

\* Every module that was initialized has had its finalize completed.
InitializedAllCompleted ==
    \A g \in SealedGuides : ~Falsy(inst[g]) => finalizationPromise[g] = "true"

ConfigureDone(g) == configureCalls[g] >= 1 /\ state[g] \notin {"added", "configuring"}

\* lifecycle.configure() has been called and has returned.
ConfigureReturned == phase \notin {"loading", "configuring"}

\* C16: engine configure calls the configure of every module exactly once and
\* in the order in which the modules were registered, whichever of them fail
\* by returning a failure or by throwing: no configure is ever called twice,
\* when the configure of a module is called that of every module registered
\* before it has been called and is over, and when engine configure has
\* returned every module's configure has been called.  (The modules meant are
\* those that define configure; envVars is handed on as it is and is no part
\* of the state.)
C16_ConfigureAllInOrder ==
    /\ \A g \in SealedGuides : configureCalls[g] <= 1
    /\ \A m, g \in SealedGuides :
          (AddedBefore(m, g) /\ HasConfigure(m) /\ configureCalls[g] >= 1)
              => ConfigureDone(m)
    /\ ConfigureReturned =>
          \A g \in SealedGuides : HasConfigure(g) => ConfigureDone(g)

\* ------------------------------------------------------------------ C17

\* What guide.configure of g returned to engine configure.
ConfigResultFor(g) == CHOOSE r \in Range(configResults) : r.name = NameOf(g)

\* The failure strings of the guides added i-th and later, in add order, each
\* with its module's name in brackets before it.
RECURSIVE FailuresFrom(_)
FailuresFrom(i) ==
    IF i > Len(engineGuides) THEN <<>>
    ELSE LET r == ConfigResultFor(i) IN
         (IF r.ok THEN <<>>
          ELSE [k \in 1..Len(r.failure) |-> "[" \o NameOf(i) \o "] " \o r.failure[k]])
         \o FailuresFrom(i + 1)

\* C17: engine configure returns ok true and leaves the phase configured if
\* no module failed; otherwise it returns ok false, sets the phase to
\* configuration_failed, and its failure list is the failing modules' failure
\* strings, module by module in the order in which the modules were
\* registered, each prefixed with "[<module name>] ".  The ok flag agrees with
\* the phase: configuration_failed is the phase exactly when ok is false.
C17_ConfigureResult ==
    ConfigureReturned =>
        /\ configureResult.ok <=> \A g \in SealedGuides : ConfigResultFor(g).ok
        /\ configureResult.ok <=> phase # "configuration_failed"
        /\ ~configureResult.ok => configureResult.failure = FailuresFrom(1)

\* ------------------------------------------------------------------ C18

\* C18: when a module's configure throws, guide configure does not pass the
\* exception on: engine configure goes on with the next guide, nothing is
\* thrown to its caller, the guide's result is ok false with exactly one
\* failure string, the stringified error, the guide's state is
\* configuration_failed and its config stays absent.
C18_ConfigureThrowCaught ==
    [][ConfigureGuideReturn("throw") =>
          LET g == ConfiguringGuide
              r == configResults'[Len(configResults')]
          IN /\ state'[g] = "configuration_failed"
             /\ cfg'[g] = "undefined"
             /\ Len(configResults') = Len(configResults) + 1
             /\ r.name = NameOf(g)
             /\ ~r.ok
             /\ r.failure = <<"Error: e">>
             /\ thrown' = "none"
             /\ phase' = "configuring"
             /\ cfgIdx' = cfgIdx + 1]_vars

\* C18 witness: engine configure has returned after the configure of some
\* module threw.
C18_Witness ==
    /\ ConfigureReturned
    /\ \E g \in SealedGuides :
          /\ state[g] = "configuration_failed"
          /\ cfg[g] = "undefined"
          /\ ConfigResultFor(g).failure = <<"Error: e">>

\* ------------------------------------------------------------------ C19

\* C19: start() resolves with started true only in the step that sets the
\* phase to ready, and whenever the phase is ready start() has resolved so
\* and every module of the sealed sequence, the lifecycle module included,
\* is in state initialized and holds an instance.
C19_ReadyAllInitialized ==
    /\ phase = "ready" =>
          /\ StartResolved
          /\ startResult = [started |-> TRUE, stopping |-> "absent"]
          /\ LifecycleGuide \in SealedGuides
          /\ \A g \in SealedGuides :
                /\ state[g] = "initialized"
                /\ ~Falsy(inst[g])
    /\ (StartResolved /\ startResult.started) =>
          phase \in {"ready", "stopping", "stopped", "stopping_failed"}

\* C19 witness: the engine is ready with two modules besides lifecycle, one
\* of which depends on another.
C19_Witness ==
    /\ phase = "ready"
    /\ Len(engineGuides) >= 3
    /\ \E g \in SealedGuides : guides[g].deps # <<>>

\* ------------------------------------------------------------------ C20

\* What every awaiter of stopped() gets: the one promise of the stopped
\* resolvable, whenever stopped() is called.
StoppedOutcome == stopped

\* C20: stopped() hands every caller, before or after stop(), the same
\* promise, which settles once: after it has resolved its outcome never
\* changes; and when it resolves the phase is stopped (outcome ok) or
\* stopping_failed (outcome not ok) and no module is in state
\* awaiting_finalization or finalizing.
C20_StoppedResolvesOnce ==
    [][/\ StoppedOutcome # "pending" => StoppedOutcome' = StoppedOutcome
       /\ StoppedOutcome' # "pending" =>
             /\ phase' = IF StoppedOutcome' = "ok" THEN "stopped" ELSE "stopping_failed"
             /\ \A g \in SealedGuides :
                   state'[g] \notin {"awaiting_finalization", "finalizing"}]_vars

\* C20 witness: the pass ended with a failed finalization and stopped() has
\* resolved with ok false, two modules having been finalized.
C20_Witness ==
    /\ StoppedOutcome = "failed"
    /\ phase = "stopping_failed"
    /\ \E g, m \in SealedGuides :
          /\ state[g] = "finalization_failed"
          /\ state[m] = "finalized"
          /\ m # LifecycleGuide

\* ------------------------------------------------------------------ C21

\* The sequence complete() would hand to the engine now.
HandedSequence == ObjectValues(modGuides)

\* C21: add refuses a name that is registered already: whatever add calls
\* were made, the sequence handed to the engine holds no two guides of one
\* name, and every guide an add has made is in it (none was replaced or
\* dropped by a later add).
C21_NoGuideReplaced ==
    /\ \A i, j \in 1..Len(HandedSequence) :
          i # j => NameOf(HandedSequence[i]) # NameOf(HandedSequence[j])
    /\ \A g \in Allocated : g \in Range(HandedSequence)

\* ------------------------------------------------------------------ C22

\* C22: whatever configure(), start(), stop() and complete() calls are made,
\* no module's configure function and no module's initialize function is
\* called more than once.
C22_ConfigureInitializeOnce ==
    \A g \in Allocated : configureCalls[g] <= 1 /\ initializeCalls[g] <= 1

\* ------------------------------------------------------------------ C23

\* How far along its life a module state is.
StateRank(st) ==
    CASE st = "added" -> 0
      [] st = "configuring" -> 1
      [] st \in {"configured", "configuration_failed"} -> 2
      [] st = "initializing" -> 3
      [] st \in {"initialized", "initialization_failed"} -> 4
      [] st = "awaiting_finalization" -> 5
      [] st = "finalizing" -> 6
      [] st \in {"finalized", "finalization_failed"} -> 7

\* The states a module never leaves.
TerminalStates ==
    {"configuration_failed", "initialization_failed", "finalized", "finalization_failed"}

C24_CellWrittenOnce == lifecyclePlaceholder \in {"null", "lifecycle1"}

\* ------------------------------------------------------------------ C25

\* status().inStoppablePhase.  The status() of this version of the engine
\* (part_001:275-280) has no such field; its tests, README and app-modules
\* read it.  Modelled after them: true straight after start() is called, after
\* start() has succeeded and after it has failed, false before start() and
\* from stop() on; these are the phases in which stop() begins a pass.
InStoppablePhase == phase \in {"starting", "ready", "starting_failed"}

\* stop() called now begins a stop pass: it neither throws nor is ignored.
StopBeginsPass ==
    \A throws \in ThrowChoices :
        LET es == StopCall(Es, throws)
        IN es.phase = "stopping" /\ phase # "stopping" /\ es.thrown = "none"

FinalizeOver(d) == finalizationPromise[d] \in {"true", "false", "rejected"}

\* C27: a guide that holds an instance and has registered dependents does
\* not enter finalizing, and its finalize function is not called, until the
\* finalize of every registered dependent has settled; a dependent whose
\* finalize failed does not block the wait: once the finalize of every
\* dependent is over the guide goes on to its own finalize function; and the
\* guide's own outcome comes from its own finalize function alone: it fails
\* only if that function was called.  Stated for the stacks whose sequence is
\* in add order.
C27_DependentsWaitedFor ==
    AddOrderKept =>
        \A g \in SealedGuides :
            (Dependents(g) # {} /\ ~Falsy(inst[g])) =>
                /\ (FinalizeStarted(g) \/ finalizeCalls[g] >= 1) =>
                       \A d \in Dependents(g) : FinalizeOver(d)
                /\ ( /\ state[g] = "awaiting_finalization"
                     /\ \A d \in Dependents(g) : FinalizeOver(d) ) =>
                       /\ finalizationPromise[g] = "pending"
                       /\ ENABLED (\E throws \in ThrowChoices :
                                      /\ GuideDependentsSettled(g, throws)
                                      /\ state'[g] # "awaiting_finalization")
                /\ FinalizeOver(g) /\ finalizationPromise[g] # "true" =>
                       finalizeCalls[g] >= 1

\* ------------------------------------------------------------------ C28

\* guide.finalize() has been issued on no guide and no finalize function has
\* been called.
NoFinalizeIssued == \A m \in Allocated : ~FinalizeIssued(m) /\ finalizeCalls[m] = 0

\* C28: when stop() interrupts a start() under way, no guide's finalize is
\* issued until the initialize in flight has settled and the start loop has
\* resolved interruptStart; and in every state, while the initialize of any
\* module is in flight no finalize has been issued, so no finalize function
\* is running or pending.
C28_NoFinalizeDuringInitialize ==
    /\ interruptStart = "pending" => (NoFinalizeIssued /\ stopPc = "awaitInterrupt")
    /\ (\E g \in Allocated : InitializeInFlight(g)) => NoFinalizeIssued

\* C28 witness: stop() came in while the initialize of a module was in
\* flight; that initialize then succeeded and the module's finalize function
\* is running now.
C28_Witness ==
    /\ interruptStart = "resolved"
    /\ state[AwaitedGuide] = "finalizing"
    /\ finalizeCalls[AwaitedGuide] = 1
    /\ phase = "stopping"

\* ------------------------------------------------------------------ C29

\* start() was interrupted by a stop() and has signalled it.
StartInterrupted == interruptStart = "resolved"

\* mod.initialize of g resolved with an instance (and, with it, a finalize
\* function or none).  null stands for no instance, as in what
\* guide.initialize() returns (inst ?? null); 0 is an instance.
ProducedInstance(g) == inst[g] \notin {"undefined", "null"}

\* C29: after an interrupted start the stop pass issues finalize() on every
\* guide, later-registered guides first; when the pass has ended, the
\* finalize function of every module that produced an instance and supplied
\* one has been called, once, the module whose initialize was in flight when
\* stop() came in included, and a module whose initialize was never begun has
\* no instance, had no finalize call and is in state configured.  Stated for
\* the stacks whose sequence is in add order.
C29_InterruptedStartFinalizesInitialized ==
    (AddOrderKept /\ StartInterrupted) =>
        /\ \A m, g \in SealedGuides :
              (AddedBefore(m, g) /\ FinalizeIssued(m)) => FinalizeIssued(g)
        /\ stopPc = "done" =>
              \A g \in SealedGuides :
                  /\ FinalizeIssued(g)
                  /\ (ProducedInstance(g) /\ finalize[g] = "fn") => finalizeCalls[g] = 1
                  /\ ~ProducedInstance(g) => finalizeCalls[g] = 0
                  /\ ~InitializeBegun(g) =>
                        (~ProducedInstance(g) /\ state[g] = "configured")

\* ------------------------------------------------------------------ C30

\* The guides that g declared as its dependencies.
DeclaredDeps(g) == Range(guides[g].deps)

\* g reaches m along declared dependencies in at most n + 1 steps.
RECURSIVE DependsWithin(_, _, _)
DependsWithin(g, m, n) ==
    \/ m \in DeclaredDeps(g)
    \/ /\ n > 0
       /\ \E x \in DeclaredDeps(g) : DependsWithin(x, m, n - 1)

\* A dependency path joins m and g, one way or the other.
DependencyPath(m, g) ==
    DependsWithin(g, m, MaxGuides) \/ DependsWithin(m, g, MaxGuides)

\* An orderedFinalization guide sits at the place of m or g in the sequence
\* the loop walks, or between the two.
OrderedAtOrBetween(m, g) ==
    \E o \in SealedGuides :
        /\ guides[o].ordered
        /\ \/ Position(m) <= Position(o) /\ Position(o) <= Position(g)
           \/ Position(g) <= Position(o) /\ Position(o) <= Position(m)

\* m was added before g, and the two are unrelated: no dependency path and
\* no orderedFinalization guide at or between their places.
Unrelated(m, g) ==
    /\ m \in SealedGuides
    /\ g \in SealedGuides
    /\ AddedBefore(m, g)
    /\ ~DependencyPath(m, g)
    /\ ~OrderedAtOrBetween(m, g)

\* C30: for two unrelated modules, m added before g, the stop pass issues
\* the finalize of m in the same run of the loop as that of g, whatever the
\* finalize of g does afterwards: whenever g's finalize has been issued, m's
\* has been too, and if m holds an instance, a finalize function and no
\* registered dependent, that function has been called, also while the
\* finalize of g is still pending.
C30_UnrelatedFinalizeNotDelayed ==
    \A m, g \in Allocated :
        (Unrelated(m, g) /\ FinalizeIssued(g)) =>
            /\ FinalizeIssued(m)
            /\ (~Falsy(inst[m]) /\ finalize[m] = "fn" /\ dependents[m] = <<>>)
                   => finalizeCalls[m] = 1

\* C30 witness: the finalize of the earlier module has settled while the
\* finalize of the later, unrelated module is still pending.
C30_Witness ==
    \E m, g \in Allocated :
        /\ Unrelated(m, g)
        /\ finalizeCalls[m] = 1
        /\ state[m] = "finalized"
        /\ finalizeCalls[g] = 1
        /\ finalizationPromise[g] = "pending"
        /\ phase = "stopping"

\* ------------------------------------------------------------------ C31

\* guide.initialize() of g was rejected: a getInstance call it made threw
\* uninitialized_instance (nothing else in it throws outside the try).
GetInstanceFailed(g) == initPromise[g] = "rejected"

\* C31: every declared dependency of a module sits strictly earlier in the
\* engine's sequence than the module, and no initialize fails on a
\* getInstance call with uninitialized_instance.
C31_DependencySafe ==
    \A g \in SealedGuides :
        /\ \A d \in DeclaredDeps(g) : Position(d) < Position(g)
        /\ ~GetInstanceFailed(g)

\* ------------------------------------------------------------------ C32

\* A step in which guide.finalize() of m, on its first call, got
\* not_finalizing from a dependent's finalized(): the promise is made and
\* rejected in the same step, with the guide left in awaiting_finalization
\* (a finalize function that throws leaves it in finalizing; the rejection
\* of a dependent's promise arrives in a later step).
NotFinalizingThrown(m) ==
    /\ finalizationPromise[m] = "none"
    /\ finalizationPromise'[m] = "rejected"
    /\ state'[m] = "awaiting_finalization"

\* Every dependent registered with m has had its finalize issued.
DependentsIssued(m) == \A d \in Dependents(m) : FinalizeIssued(d)

\* C32: under engine operations no guide.finalize() meets a dependent whose
\* finalize has not been initiated: every guide with an instance whose
\* finalize has been issued has all its registered dependents issued, and no
\* step throws not_finalizing.
C32_NotFinalizingUnreachable ==
    /\ [](\A m \in Allocated :
             (FinalizeIssued(m) /\ ~Falsy(inst[m])) => DependentsIssued(m))
    /\ [][\A m \in GuideIds : ~NotFinalizingThrown(m)]_vars

\* C32 witness: a guide waits for a registered dependent whose finalize
\* function is running.
C32_Witness ==
    \E m \in Allocated : \E d \in Dependents(m) :
        /\ state[m] = "awaiting_finalization"
        /\ finalizationPromise[m] = "pending"
        /\ state[d] = "finalizing"
        /\ finalizationPromise[d] = "pending"

\* ------------------------------------------------------------------ C33

\* guide.initialize() of g has been called by start().
InitializeCalled(g) == initPromise[g] # "none"

\* C33: the engine's sequence is the guides in add order with the lifecycle
\* guide first; no other guide's initialize is called before that of the
\* lifecycle guide has returned, and the lifecycle guide's finalize is issued
\* only when every other guide's finalize has settled.
C33_EngineInAddOrder ==
    /\ AddOrderKept
    /\ \A g \in SealedGuides \ {LifecycleGuide} :
          /\ InitializeCalled(g) => initPromise[LifecycleGuide] = "resolved"
          /\ FinalizeIssued(LifecycleGuide) => FinalizeSettled(g)

\* ------------------------------------------------------------------ C34

\* The stop pass has given its verdict.
StopPassOver == phase \in {"stopped", "stopping_failed"}

\* Guide g is in the middle of an initialize or of a finalize.
InTransit(g) == state[g] \in {"initializing", "awaiting_finalization", "finalizing"}

\* C34: when the phase is stopped or stopping_failed no module is in state
\* initializing, awaiting_finalization or finalizing, and when it is stopped
\* no module is in state finalization_failed.
C34_StoppedMeansSettled ==
    StopPassOver =>
        /\ \A g \in Allocated : ~InTransit(g)
        /\ phase = "stopped" => \A g \in Allocated : state[g] # "finalization_failed"

\* C34 witness: the pass ended stopping_failed with one module finalized and
\* another finalization_failed.
C34_Witness ==
    /\ phase = "stopping_failed"
    /\ \E g, h \in Allocated :
          /\ state[g] = "finalization_failed"
          /\ state[h] = "finalized"
          /\ finalizeCalls[h] = 1

\* ------------------------------------------------------------------ C35

\* The place in g's dependency list of the first dependency without an
\* instance, where getInstance throws; one past the list if there is none.
FirstUninitialized(g) ==
    LET missing == {i \in 1..Len(guides[g].deps) : inst[guides[g].deps[i]] = "undefined"}
    IN IF missing = {} THEN Len(guides[g].deps) + 1
       ELSE CHOOSE i \in missing : \A k \in missing : i <= k

\* The step in which guide.initialize() of g, holding a config, calls
\* getInstance on its dependencies.
GetInstanceCalls(g) ==
    /\ initPromise[g] = "none"
    /\ initPromise'[g] # "none"
    /\ cfg[g] # "undefined"

\* The getInstance calls that g's initialize makes on d before one throws (a
\* module may name the same dependency under several keys).
GetInstanceCallsOn(g, d) ==
    Cardinality({i \in 1..Len(guides[g].deps) :
                    i < FirstUninitialized(g) /\ guides[g].deps[i] = d})

\* C35: getInstance on a guide without an instance throws
\* uninitialized_instance and leaves the guide's dependents as they were; on
\* a guide with an instance each call appends the dependent to the guide's
\* dependents; in both cases the guide's instance, finalize function, state
\* and finalization promise stay as they were.
C35_GetInstance ==
    [][\A g \in GuideIds :
          GetInstanceCalls(g) =>
              /\ GetInstanceFailed(g)' <=> FirstUninitialized(g) <= Len(guides[g].deps)
              /\ \A d \in DeclaredDeps(g) :
                    /\ inst[d] = "undefined" => dependents'[d] = dependents[d]
                    /\ dependents'[d] =
                          dependents[d] \o [k \in 1..GetInstanceCallsOn(g, d) |-> g]
                    /\ inst'[d] = inst[d]
                    /\ finalize'[d] = finalize[d]
                    /\ state'[d] = state[d]
                    /\ finalizationPromise'[d] = finalizationPromise[d]]_vars

\* C35 witness: a module is initializing after getInstance registered it with
\* its dependency, which holds an instance.
C35_Witness ==
    \E g \in Allocated : \E d \in DeclaredDeps(g) :
        /\ state[g] = "initializing"
        /\ initPromise[g] = "pending"
        /\ inst[d] = "obj"
        /\ g \in Dependents(d)

\* ------------------------------------------------------------------ C36

\* The step in which guide.finalize() is called on g for the first time.
FirstFinalizeCall(g) ==
    /\ finalizationPromise[g] = "none"
    /\ finalizationPromise'[g] # "none"

\* C36: the first guide.finalize() on a guide that produced no instance
\* resolves true in the same step, calls no finalize function and leaves the
\* guide's state as it was.
C36_FinalizeWithoutInstance ==
    [][\A g \in GuideIds :
          (FirstFinalizeCall(g) /\ ~ProducedInstance(g)) =>
              /\ finalizationPromise'[g] = "true"
              /\ finalizeCalls'[g] = finalizeCalls[g]
              /\ state'[g] = state[g]]_vars

\* C36 witness: after a failed start the stop pass has finalized a module
\* that failed to initialize and one that was never initialized; both hold
\* no instance, resolved true and kept their states.
C36_Witness ==
    \E g, h \in Allocated :
        /\ state[g] = "initialization_failed"
        /\ state[h] = "configured"
        /\ ~ProducedInstance(g)
        /\ ~ProducedInstance(h)
        /\ finalizationPromise[g] = "true"
        /\ finalizationPromise[h] = "true"
        /\ finalizeCalls[g] = 0
        /\ finalizeCalls[h] = 0

\* ------------------------------------------------------------ app modules

\* A module of the stack that can be one of the built-in app modules: it
\* takes the lifecycle module as its dependency and has orderedFinalization.
AppModule(g) ==
    /\ g \in SealedGuides \ {LifecycleGuide}
    /\ guides[g].ordered
    /\ LifecycleGuide \in DeclaredDeps(g)

\* makeStopSignalHandler: its initialize has installed the process.on
\* handlers and resolved with { instance: {} }; the handlers are never
\* removed.
SignalHandlerInstalled(g) ==
    /\ AppModule(g)
    /\ inst[g] = "obj"
    /\ finalize[g] = "undefined"

\* makeControlServer: its initialize has resolved with the server listening
\* and a finalize function that closes the server, not called yet.
ControlServerListening(g) ==
    /\ AppModule(g)
    /\ inst[g] = "obj"
    /\ finalize[g] = "fn"
    /\ finalizeCalls[g] = 0

\* makeControlServer({ allowStop: true, ... }), before the stack is completed
\* (the parameter's default is false).
MakeControlServerAllowingStop ==
    /\ lifecyclePlaceholder = "null"
    /\ ~allowStop
    /\ allowStop' = TRUE
    /\ UNCHANGED <<builderVars, guideVars, configureVars, startVars, stopVars,
                   thrown, appOutcome, envProxyVars>>

\* A signal handler that calls lifecycle.stop() without reading the status.
StopSignalUnchecked(throws) ==
    /\ \E g \in Allocated : SignalHandlerInstalled(g)
    /\ CommitEs(StopCall(Es, throws))
    /\ appOutcome' = "signal_stopping"
    /\ UNCHANGED <<builderVars, cfg, inst, finalize, dependents, initPromise,
                   configureCalls, initializeCalls, configureVars, startVars,
                   stopped, allowStop, envProxyVars>>

\* The stop-signal-handler's process.on callback for SIGHUP, SIGINT or
\* SIGTERM.
StopSignal(throws) ==
    /\ \E g \in Allocated : SignalHandlerInstalled(g)
    /\ IF InStoppablePhase
       THEN /\ CommitEs(StopCall(Es, throws))
            /\ appOutcome' = "signal_stopping"
            /\ UNCHANGED <<builderVars, cfg, inst, finalize, dependents, initPromise,
                           configureCalls, initializeCalls, configureVars, startVars,
                           stopped, allowStop, envProxyVars>>
       ELSE /\ appOutcome' = "signal_ignored"
            /\ UNCHANGED <<builderVars, guideVars, configureVars, startVars,
                           stopVars, thrown, allowStop, envProxyVars>>

\* The control server's handler of POST /stop: the status of its response.
PostStop(throws) ==
    /\ \E g \in Allocated : ControlServerListening(g)
    /\ IF allowStop
       THEN IF InStoppablePhase
            THEN /\ CommitEs(StopCall(Es, throws))
                 /\ appOutcome' = "200"
                 /\ UNCHANGED <<builderVars, cfg, inst, finalize, dependents,
                                initPromise, configureCalls, initializeCalls,
                                configureVars, startVars, stopped, allowStop, envProxyVars>>
            ELSE /\ appOutcome' = "409"
                 /\ UNCHANGED <<builderVars, guideVars, configureVars, startVars,
                                stopVars, thrown, allowStop, envProxyVars>>
       ELSE /\ appOutcome' = "423"
            /\ UNCHANGED <<builderVars, guideVars, configureVars, startVars,
                           stopVars, thrown, allowStop, envProxyVars>>

\* A stack of the lifecycle module and an app module, with signals and
\* POST /stop requests arriving at any moment.
NextAppModules ==
    \/ \E name \in AddNames, ordered \in BOOLEAN, depKeys \in DepKeyChoices :
          /\ Len(guides) <= MaxAppMods
          /\ Add(name, ordered, depKeys)
    \/ Run
    \/ MakeControlServerAllowingStop
    \/ \E throws \in ThrowChoices : StopSignal(throws)
    \/ \E throws \in ThrowChoices : PostStop(throws)

SpecAppModules == Init /\ [][NextAppModules]_vars

\* ------------------------------------------------------------------ C37

\* What a handler of an app module did when it called lifecycle.stop(), and
\* when it did not.
StopOutcomes == {"signal_stopping", "200"}
LeaveOutcomes == {"signal_ignored", "409", "423"}

EnvKeys == {"X", "Y"}
LockedAccessReturns == {"true", "false", "undefined"}

\* The value envVars holds under a key.
EnvValue(key) == "value of " \o key

\* target[strProp]
TargetValue(key) == IF key \in envTarget THEN EnvValue(key) ELSE "undefined"

\* Object.hasOwn(target, prop)
Present(key) == key \in envTarget

\* onLockedAccess is consulted: the proxy is locked and the callback was
\* supplied.
Consulted == locked /\ onLockedAccessGiven

\* A checkLock that takes the presence of the callback for its consent.
CheckLockIgnoringReturn(returned) == ~locked \/ onLockedAccessGiven

\* checkLock(key) returns instead of throwing.
CheckLock(returned) ==
    ~locked \/ (onLockedAccessGiven /\ returned = "true")

\* What checkLock does to the record of onLockedAccess calls.
CallOnLockedAccess(key, returned) ==
    IF Consulted
    THEN /\ onLockedAccessCalls < MaxLockedAccessCalls
         /\ onLockedAccessCalls' = onLockedAccessCalls + 1
         /\ onLockedAccessLast' = [key |-> key, returned |-> returned]
    ELSE UNCHANGED <<onLockedAccessCalls, onLockedAccessLast>>

\* makeEnvProxy(envVars, options)
MakeEnvProxy(target, given) ==
    /\ ~envMade
    /\ envMade' = TRUE
    /\ envTarget' = target
    /\ onLockedAccessGiven' = given
    /\ UNCHANGED <<builderVars, guideVars, configureVars, startVars, stopVars,
                   thrown, allowStop, appOutcome, locked, envAccessLog,
                   onLockedAccessCalls, onLockedAccessLast, envResult>>

\* The proxy's get trap: vars[key].
EnvGet(key, returned) ==
    /\ envMade
    /\ CallOnLockedAccess(key, returned)
    /\ IF CheckLock(returned)
       THEN /\ Len(envAccessLog) < MaxEnvAccesses
            /\ envAccessLog' = Append(envAccessLog,
                   [type |-> "read", key |-> key, present |-> Present(key),
                    value |-> TargetValue(key)])
            /\ envResult' = TargetValue(key)
       ELSE /\ envResult' = "thrown"
            /\ UNCHANGED envAccessLog
    /\ UNCHANGED <<builderVars, guideVars, configureVars, startVars, stopVars,
                   thrown, allowStop, appOutcome, envMade, envTarget,
                   onLockedAccessGiven, locked>>

\* The proxy's has trap: key in vars.
EnvHas(key, returned) ==
    /\ envMade
    /\ CallOnLockedAccess(key, returned)
    /\ IF CheckLock(returned)
       THEN /\ Len(envAccessLog) < MaxEnvAccesses
            /\ envAccessLog' = Append(envAccessLog,
                   [type |-> "check", key |-> key, present |-> Present(key),
                    value |-> "undefined"])
            /\ envResult' = IF Present(key) THEN "true" ELSE "false"
       ELSE /\ envResult' = "thrown"
            /\ UNCHANGED envAccessLog
    /\ UNCHANGED <<builderVars, guideVars, configureVars, startVars, stopVars,
                   thrown, allowStop, appOutcome, envMade, envTarget,
                   onLockedAccessGiven, locked>>

\* lock()
EnvLock ==
    /\ envMade
    /\ locked' = TRUE
    /\ UNCHANGED <<builderVars, guideVars, configureVars, startVars, stopVars,
                   thrown, allowStop, appOutcome, envMade, envTarget,
                   onLockedAccessGiven, envAccessLog, onLockedAccessCalls,
                   onLockedAccessLast, envResult>>

NextEnvProxy ==
    \/ \E target \in SUBSET EnvKeys, given \in BOOLEAN : MakeEnvProxy(target, given)
    \/ \E key \in EnvKeys, returned \in LockedAccessReturns : EnvGet(key, returned)
    \/ \E key \in EnvKeys, returned \in LockedAccessReturns : EnvHas(key, returned)
    \/ EnvLock

SpecEnvProxy == Init /\ [][NextEnvProxy]_vars

\* ------------------------------------------------------------------ C38

\* A step that is a read or a presence check through the proxy.
EnvAccess ==
    \E key \in EnvKeys, returned \in LockedAccessReturns :
        EnvGet(key, returned) \/ EnvHas(key, returned)

====
